---- MODULE Spec2Model ----
(***************************************************************************)
(* A model of eyeglass' import resolution (ModuleImporter, FSImporter) and *)
(* of its sandboxed filesystem functions (functions/fs.ts).                *)
(*                                                                         *)
(* Strings are sequences of one-character strings, so that the regular     *)
(* expressions and the path functions of the code act on characters and    *)
(* segments as they do in the code.  POSIX path semantics are modelled.    *)
(***************************************************************************)
EXTENDS Integers, Sequences, FiniteSets, TLC

VARIABLES
  fsSandbox,   \* options.eyeglass.fsSandbox: FALSE or a sequence of roots
  disk,        \* the filesystem: path -> "file" | "dir" | "locked" (absent otherwise)
  fnCall,      \* the sandboxed function last called and its arguments
  fnResult,    \* the value its done() callback received
  fsCalls,     \* the filesystem calls it made, in order
  globbed,     \* what glob reported to its callback, if it was called
  imported,    \* context.eyeglass.imported: the files import-once has seen
  pc,          \* where the import request in flight stands
  req,         \* the import request in flight: uri, prev
  frame,       \* the locals the request's callbacks close over
  trace,       \* what the request has done so far, in order
  completions, \* what done() received, once per invocation
  readCount,   \* successful reads of each file in this compilation
  delivered,   \* requests of this compilation completed with each file
  nRequests,   \* import requests made in this compilation
  registrations, \* the fs-register-path contents the compiler received
  host         \* the host: path.sep and process.env.EYEGLASS_NORMALIZE_PATHS

sandboxVars == <<fsSandbox, fnCall, fnResult, fsCalls, globbed>>
importVars ==
  <<imported, pc, req, frame, trace, completions, readCount, delivered, nRequests,
    registrations>>

(***************************************************************************)
(* Bounds                                                                  *)
(***************************************************************************)
MaxDepth == 3      \* segments in a path handed to a sandboxed function
MaxRoots == 2      \* roots in the sandbox allow-list
MaxEntries == 2    \* entries a glob call reports
MaxFiles == 2      \* files and directories on disk besides the importing stylesheet
MaxRequests == 2   \* import requests in one compilation
MaxSegments == 2   \* path segments passed to one call of join or absolute-path
MaxUriLen == 6     \* characters of a uri handed to MODULE_PARSER
MaxUriChars == 3   \* characters of a string handed to URI
MaxFragments == 2  \* fragments handed to URI.join

(***************************************************************************)
(* Strings and POSIX paths                                                 *)
(***************************************************************************)
Str1(c) == <<c>>
Slash == "/"
Dot == "."

RECURSIVE Flatten(_)
\* the concatenation of a sequence of strings
Flatten(ss) == IF ss = <<>> THEN <<>> ELSE Head(ss) \o Flatten(Tail(ss))

RECURSIVE JoinWith(_, _)
\* Array.prototype.join(sep)
JoinWith(segs, sep) ==
  IF segs = <<>> THEN <<>>
  ELSE IF Len(segs) = 1 THEN Head(segs)
  ELSE Head(segs) \o sep \o JoinWith(Tail(segs), sep)

RECURSIVE SplitAt(_, _, _)
\* String.prototype.split(c), with cur the segment being read
SplitAt(s, c, cur) ==
  IF s = <<>> THEN <<cur>>
  ELSE IF Head(s) = c THEN <<cur>> \o SplitAt(Tail(s), c, <<>>)
  ELSE SplitAt(Tail(s), c, Append(cur, Head(s)))

Split(s, c) == SplitAt(s, c, <<>>)

IsAbsolute(p) == Len(p) > 0 /\ p[1] = Slash

DotDotSeg == <<Dot, Dot>>
DotSeg == <<Dot>>

RECURSIVE NormalizeSegs(_, _, _)
\* normalizeString of node's path module: "." and empty segments are dropped,
\* ".." removes the segment before it (and is kept in a relative path that
\* has nothing left to remove)
NormalizeSegs(segs, acc, absolute) ==
  IF segs = <<>> THEN acc
  ELSE LET s == Head(segs) IN
    IF s = <<>> \/ s = DotSeg THEN NormalizeSegs(Tail(segs), acc, absolute)
    ELSE IF s = DotDotSeg THEN
      IF acc # <<>> /\ acc[Len(acc)] # DotDotSeg
        THEN NormalizeSegs(Tail(segs), SubSeq(acc, 1, Len(acc) - 1), absolute)
      ELSE IF absolute THEN NormalizeSegs(Tail(segs), acc, absolute)
      ELSE NormalizeSegs(Tail(segs), Append(acc, s), absolute)
    ELSE NormalizeSegs(Tail(segs), Append(acc, s), absolute)

\* the segments of the absolute path p, resolved
ResolvedSegs(p) == NormalizeSegs(Split(p, Slash), <<>>, TRUE)

AbsFromSegs(segs) == <<Slash>> \o JoinWith(segs, <<Slash>>)

\* path.resolve(from, to) for an absolute `from`
PathResolve(from, to) ==
  IF IsAbsolute(to) THEN AbsFromSegs(ResolvedSegs(to))
  ELSE AbsFromSegs(ResolvedSegs(from \o <<Slash>> \o to))

\* the path p written from its normalized segments
RenderPath(p, segs) ==
  IF p = <<>> THEN <<Dot>>
  ELSE IF IsAbsolute(p)
    THEN AbsFromSegs(segs) \o (IF p[Len(p)] = Slash /\ segs # <<>> THEN <<Slash>> ELSE <<>>)
  ELSE IF segs = <<>> THEN (IF p[Len(p)] = Slash THEN <<Dot, Slash>> ELSE <<Dot>>)
  ELSE JoinWith(segs, <<Slash>>) \o (IF p[Len(p)] = Slash THEN <<Slash>> ELSE <<>>)

\* path.normalize(p)
PathNormalize(p) == RenderPath(p, NormalizeSegs(Split(p, Slash), <<>>, IsAbsolute(p)))

\* path.join(a, b): joined with "/", then normalized
PathJoin(a, b) ==
  PathNormalize(IF a = <<>> THEN b ELSE IF b = <<>> THEN a ELSE a \o <<Slash>> \o b)

\* path.dirname(p): "." for a path without a slash, "/" for a file of the root
PathDirname(p) ==
  LET segs == Split(p, Slash)
      keep == SubSeq(segs, 1, Len(segs) - 1)
      d == JoinWith(keep, <<Slash>>)
  IN IF Len(segs) <= 1 THEN <<Dot>>
     ELSE IF d = <<>> THEN <<Slash>> ELSE d

RECURSIVE CommonPrefixLen(_, _)
CommonPrefixLen(a, b) ==
  IF a = <<>> \/ b = <<>> THEN 0
  ELSE IF Head(a) = Head(b) THEN 1 + CommonPrefixLen(Tail(a), Tail(b))
  ELSE 0

\* path.relative(from, to): both resolved, then one ".." for every segment of
\* `from` below the common directory, then the rest of `to`
RelativeSegs(f, t, n) ==
  JoinWith([i \in 1..(Len(f) - n) |-> DotDotSeg] \o SubSeq(t, n + 1, Len(t)), <<Slash>>)

RelativeOfSegs(f, t) == RelativeSegs(f, t, CommonPrefixLen(f, t))

PathRelative(from, to) == RelativeOfSegs(ResolvedSegs(from), ResolvedSegs(to))


(***************************************************************************)
(* Sass values and errors (util/SassImplementation.ts)                     *)
(***************************************************************************)
SassString(chars) == [type |-> "string", value |-> chars]
SassNumber(chars) == [type |-> "number", value |-> chars]
SassError(msg) == [type |-> "error", value |-> msg]
SassTrue == [type |-> "boolean", value |-> <<"true">>]
SassFalse == [type |-> "boolean", value |-> <<"false">>]
SassList(items) == [type |-> "list", value |-> items]
SassMap(keys) == [type |-> "map", value |-> keys]

isSassString(v) == v.type = "string"

\* typeError(sass, expected, actual): "Expected <expected>, got <type>: <value>"
typeError(expected, actual) ==
  SassError(<<"Expected ">> \o expected \o <<", got ", actual.type, ": ">> \o actual.value)

StringType == <<"string">>

(***************************************************************************)
(* The filesystem                                                          *)
(***************************************************************************)
\* what is at the absolute path p, after resolving "." and ".."
\* process.cwd()
Cwd == <<Slash, "c">>

KindAt(r) == IF r \in DOMAIN disk THEN disk[r] ELSE "absent"

DiskKind(p) == KindAt(PathResolve(Cwd, p))

existsSync(p) == DiskKind(p) # "absent"

FileContents(p) == <<"contents of ">> \o PathResolve(Cwd, p)

ErrnoMessage(code, p) == <<code, ": ">> \o p

\* the error a read of p raises, "" when it succeeds
ErrnoOf(kind) ==
  CASE kind = "absent" -> "ENOENT"
    [] kind = "dir" -> "EISDIR"
    [] kind = "locked" -> "EACCES"
    [] OTHER -> ""

ReadErrno(p) == ErrnoOf(DiskKind(p))

(***************************************************************************)
(* The sandbox (functions/fs.ts)                                           *)
(***************************************************************************)
\* match(/^\.\./)
MatchesLeadingDotDot(s) == Len(s) >= 2 /\ s[1] = Dot /\ s[2] = Dot

pathInSandboxDir(fsPath, sandboxDir) ==
  IF MatchesLeadingDotDot(PathRelative(sandboxDir, fsPath)) THEN FALSE ELSE TRUE

\* fsSandbox is [restricted |-> FALSE] for a falsy option, else the array of roots
inSandbox(fsPath) ==
  IF ~fsSandbox.restricted THEN TRUE
  ELSE \E i \in 1..Len(fsSandbox.roots) : pathInSandboxDir(fsPath, fsSandbox.roots[i])

accessViolation(location) ==
  SassError(<<"Security violation: Cannot access ">> \o location)

FsCall(name, p) == <<name>> \o p

Outcome(result, calls) == [result |-> result, calls |-> calls, globbed |-> <<>>]

\* the outcome of a call whose glob callback ran with g
AfterGlob(out, g) == [out EXCEPT !.globbed = <<g>>]

\* fsExists without the sandbox check
fsExists_Unchecked(v) ==
  IF ~isSassString(v) THEN Outcome(typeError(StringType, v), <<>>)
  ELSE Outcome(IF existsSync(v.value) THEN SassTrue ELSE SassFalse,
               <<FsCall("existsSync", v.value)>>)

\* "eyeglass-fs-exists($absolute-path)"
fsExists(v) ==
  IF ~isSassString(v) THEN Outcome(typeError(StringType, v), <<>>)
  ELSE IF inSandbox(v.value)
    THEN Outcome(IF existsSync(v.value) THEN SassTrue ELSE SassFalse,
                 <<FsCall("existsSync", v.value)>>)
  ELSE Outcome(accessViolation(v.value), <<>>)

\* what the callback of fs.readFile hands to done()
readFileValue(filename, errno) ==
  IF errno # "" THEN SassError(ErrnoMessage(errno, filename))
  ELSE SassString(FileContents(filename))

\* "eyeglass-fs-read-file($filename)"
fsReadFile(v) ==
  IF ~isSassString(v) THEN Outcome(typeError(StringType, v), <<>>)
  ELSE IF inSandbox(v.value)
    THEN Outcome(readFileValue(v.value, ReadErrno(v.value)),
                 <<FsCall("readFile", v.value)>>)
  ELSE Outcome(accessViolation(v.value), <<>>)

InfoKeys ==
  <<"modification-time", "creation-time", "is-file", "is-directory", "real-path", "size">>

\* "eyeglass-fs-info($filename)"
fsInfo(v) ==
  IF ~isSassString(v) THEN Outcome(typeError(StringType, v), <<>>)
  ELSE IF inSandbox(v.value)
    THEN IF ~existsSync(v.value)
           THEN Outcome(SassError(ErrnoMessage("ENOENT", v.value)),
                        <<FsCall("stat", v.value)>>)
           ELSE Outcome(SassMap(InfoKeys),
                        <<FsCall("stat", v.value), FsCall("realpathSync", v.value)>>)
  ELSE Outcome(accessViolation(v.value), <<>>)

EndsWithSlash(s) == Len(s) > 0 /\ s[Len(s)] = Slash

RECURSIVE globLoop_SkipsOutside(_, _, _, _, _)
\* a loop that leaves an entry outside the sandbox out and goes on
globLoop_SkipsOutside(directory, files, includeFiles, includeDirectories, filesToReturn) ==
  IF files = <<>> THEN SassList(filesToReturn)
  ELSE globLoop_SkipsOutside(directory, Tail(files), includeFiles, includeDirectories,
         IF ~inSandbox(PathJoin(directory, Head(files))) THEN filesToReturn
         ELSE IF EndsWithSlash(Head(files)) /\ includeDirectories
           THEN Append(filesToReturn, SubSeq(Head(files), 1, Len(Head(files)) - 1))
         ELSE IF ~EndsWithSlash(Head(files)) /\ includeFiles
           THEN Append(filesToReturn, Head(files))
         ELSE filesToReturn)

RECURSIVE globLoop(_, _, _, _, _)
\* the loop over the entries glob reported: the list to return, or the
\* violation that ended the call
globLoop(directory, files, includeFiles, includeDirectories, filesToReturn) ==
  IF files = <<>> THEN SassList(filesToReturn)
  ELSE LET f == Head(files)
           asDir == EndsWithSlash(f) /\ includeDirectories
           asFile == ~EndsWithSlash(f) /\ includeFiles
       IN IF (asDir \/ asFile) /\ ~inSandbox(PathJoin(directory, f))
            THEN accessViolation(f)
          ELSE globLoop(directory, Tail(files), includeFiles, includeDirectories,
                 IF asDir THEN Append(filesToReturn, SubSeq(f, 1, Len(f) - 1))
                 ELSE IF asFile THEN Append(filesToReturn, f)
                 ELSE filesToReturn)

\* globFiles: g is what the glob library reports for (pattern, directory)
globFiles(directory, globPattern, includeFiles, includeDirectories, g) ==
  IF inSandbox(directory)
    THEN AfterGlob(
           Outcome(IF g.error THEN SassError(<<"glob error">>)
                   ELSE globLoop(directory, g.files, includeFiles, includeDirectories, <<>>),
                   <<FsCall("glob", directory)>>),
           g)
  ELSE Outcome(accessViolation(directory), <<>>)

\* "eyeglass-fs-list-files($directory, $glob: '*')"
fsListFiles(dir, pat, g) ==
  IF ~isSassString(dir) THEN Outcome(typeError(StringType, dir), <<>>)
  ELSE IF ~isSassString(pat) THEN Outcome(typeError(StringType, pat), <<>>)
  ELSE globFiles(dir.value, pat.value, TRUE, FALSE, g)

\* "eyeglass-fs-list-directories($directory, $glob: '*')"
fsListDirectories(dir, pat, g) ==
  IF ~isSassString(dir) THEN Outcome(typeError(StringType, dir), <<>>)
  ELSE IF ~isSassString(pat) THEN Outcome(typeError(StringType, pat), <<>>)
  ELSE globFiles(dir.value, pat.value, FALSE, TRUE, g)

\* what reaches the caller when a node library function throws instead of
\* the function calling done()
Thrown(name) == [type |-> "thrown", value |-> <<name>>]

\* path.resolve / path.join validate their arguments: a TypeError is thrown
\* for an argument that is not a string
AllStrings(values) == \A i \in 1..Len(values) : isSassString(values[i])

RECURSIVE JoinAll(_, _)
\* path.join.apply(null, segments): "." for no segments
JoinAll(segments, acc) ==
  IF segments = <<>> THEN (IF acc = <<>> THEN <<Dot>> ELSE PathNormalize(acc))
  ELSE JoinAll(Tail(segments),
               IF Head(segments) = <<>> THEN acc
               ELSE IF acc = <<>> THEN Head(segments)
               ELSE acc \o <<Slash>> \o Head(segments))

RECURSIVE ResolveAll(_, _)
\* path.resolve.apply(null, segments), from the working directory
ResolveAll(segments, acc) ==
  IF segments = <<>> THEN acc
  ELSE ResolveAll(Tail(segments), PathResolve(acc, Head(segments)))

ValuesOf(values) == [i \in 1..Len(values) |-> values[i].value]

\* "eyeglass-fs-join($segments...)"
fsJoin(segments) ==
  IF AllStrings(segments)
    THEN Outcome(SassString(JoinAll(ValuesOf(segments), <<>>)), <<>>)
    ELSE Outcome(Thrown("TypeError"), <<>>)

\* the pathnames registered by fs-register-path, as the stylesheet passes them
RegisteredPathnames == [id \in {<<"a", "b">>} |-> <<Slash, "a">>]

\* "eyeglass-fs-absolute-path($fs-registered-pathnames, $path-id, $segments...)"
fsAbsolutePathOf(registered, pathId, segments) ==
  IF pathId.value \in DOMAIN registered
    THEN IF AllStrings(segments)
           THEN Outcome(SassString(ResolveAll(<<registered[pathId.value]>>
                                                \o ValuesOf(segments), Cwd)), <<>>)
           ELSE Outcome(Thrown("TypeError"), <<>>)
    ELSE Outcome(SassError(<<"No path is registered for ">> \o pathId.value), <<>>)

ParsedKeys == <<"base", "dir", "name", "ext", "is-absolute">>

\* "eyeglass-fs-parse-filename($filename)"
fsParseFilename(v) ==
  IF ~isSassString(v) THEN Outcome(typeError(StringType, v), <<>>)
  ELSE Outcome(SassMap(ParsedKeys), <<>>)


(***************************************************************************)
(* The calls the compiled stylesheet can make                              *)
(***************************************************************************)
SeqsUpTo(S, n) == UNION {[1..k -> S] : k \in 0..n}

SegChoices == {<<"a">>, <<"b">>, DotDotSeg, <<Dot, Dot, "a">>}

\* absolute paths as a stylesheet writes them, ".." segments included
SandboxPaths == {AbsFromSegs(segs) : segs \in SeqsUpTo(SegChoices, MaxDepth)}

ListPaths == {AbsFromSegs(segs) : segs \in SeqsUpTo(SegChoices, MaxDepth - 1)}

RootChoices == {<<Slash, "a">>, <<Slash, "a", Slash, "b">>}

SandboxChoices ==
  {[restricted |-> FALSE, roots |-> <<>>]}
    \cup {[restricted |-> TRUE, roots |-> r] : r \in SeqsUpTo(RootChoices, MaxRoots)}

SandboxDisks ==
  { [p \in {<<Slash, "a", Slash, "b">>} |-> "file"],
    [p \in {<<Slash, "a">>, <<Slash, "b">>} |-> IF p = <<Slash, "a">> THEN "dir" ELSE "file"] }

NotAString == SassNumber(<<"1">>)

PathValues == {SassString(p) : p \in SandboxPaths} \cup {NotAString}
ListValues == {SassString(p) : p \in ListPaths} \cup {NotAString}
PatternValues == {SassString(<<"*">>), NotAString}

GlobEntryChoices ==
  {<<"f">>, <<"d", Slash>>, <<Dot, Dot, Slash, "f">>, <<Dot, Dot, Slash, "d", Slash>>}

\* what the glob library may report: an error, or entries (directories marked
\* with a trailing slash)
GlobOutcomes ==
  {[error |-> TRUE, files |-> <<>>]}
    \cup {[error |-> FALSE, files |-> fs] : fs \in SeqsUpTo(GlobEntryChoices, MaxEntries)}

FilenameValues == {SassString(<<Slash, "a", Slash, "b">>), SassString(<<"b">>), NotAString}

SegmentValues == {SassString(<<"a">>), SassString(<<Dot, Dot, Slash, "b">>), NotAString}

\* the $segments... of a call, at most MaxSegments of them
SegmentLists == SeqsUpTo(SegmentValues, MaxSegments)

PathIds == {SassString(<<"a", "b">>), SassString(<<"z">>)}

NoCall == [fn |-> "none", args |-> <<>>]
NoResult == [type |-> "none", value |-> <<>>]

\* the compiled stylesheet calls one of the functions
StylesheetCalls ==
  /\ fnCall = NoCall
  /\ \/ \E fn \in {"exists", "read-file", "info"}, v \in PathValues :
          fnCall' = [fn |-> fn, args |-> <<v>>]
     \/ \E fn \in {"list-files", "list-directories"}, d \in ListValues,
           pat \in PatternValues :
          fnCall' = [fn |-> fn, args |-> <<d, pat>>]
     \/ \E v \in FilenameValues : fnCall' = [fn |-> "parse-filename", args |-> <<v>>]
     \/ \E segs \in SegmentLists : fnCall' = [fn |-> "join", args |-> segs]
     \/ \E id \in PathIds, segs \in SegmentLists :
          fnCall' = [fn |-> "absolute-path", args |-> <<id>> \o segs]
  /\ UNCHANGED <<fsSandbox, disk, host, fnResult, fsCalls, globbed>>
  /\ UNCHANGED importVars

Pending(fn) == fnCall.fn = fn /\ fnResult = NoResult

\* the function runs and hands out.result to done()
Completes(out) ==
  /\ fnResult' = out.result
  /\ fsCalls' = out.calls
  /\ globbed' = out.globbed
  /\ UNCHANGED <<fsSandbox, disk, host, fnCall>>
  /\ UNCHANGED importVars

FsExists == Pending("exists") /\ Completes(fsExists(fnCall.args[1]))

FsReadFile == Pending("read-file") /\ Completes(fsReadFile(fnCall.args[1]))

FsInfo == Pending("info") /\ Completes(fsInfo(fnCall.args[1]))

FsListFiles ==
  /\ Pending("list-files")
  /\ \E g \in GlobOutcomes : Completes(fsListFiles(fnCall.args[1], fnCall.args[2], g))

FsListDirectories ==
  /\ Pending("list-directories")
  /\ \E g \in GlobOutcomes :
       Completes(fsListDirectories(fnCall.args[1], fnCall.args[2], g))

FsParseFilename == Pending("parse-filename") /\ Completes(fsParseFilename(fnCall.args[1]))

FsJoin == Pending("join") /\ Completes(fsJoin(fnCall.args))

FsAbsolutePath ==
  /\ Pending("absolute-path")
  /\ Completes(fsAbsolutePathOf(RegisteredPathnames, fnCall.args[1], Tail(fnCall.args)))

\* the compiler takes the value; the next call can be made
StylesheetContinues ==
  /\ fnResult # NoResult
  /\ fnCall' = NoCall
  /\ fnResult' = NoResult
  /\ fsCalls' = <<>>
  /\ globbed' = <<>>
  /\ UNCHANGED <<fsSandbox, disk, host>>
  /\ UNCHANGED importVars

(***************************************************************************)
(* Options, module registry and name expansion                             *)
(***************************************************************************)
\* options.eyeglass.root
Root == <<Slash, "p">>

\* options.includePaths: one relative, one absolute
IncludePaths == << <<"i">>, <<Slash, "j">> >>

NoModule == [found |-> FALSE, name |-> <<>>, sassDir |-> <<>>, mainPath |-> <<>>]

Module(name, sassDir, mainPath) ==
  [found |-> TRUE, name |-> name, sassDir |-> sassDir, mainPath |-> mainPath]

\* the modules the registry knows; "@s/n" and "@r" are not among them
Modules ==
  { Module(<<"w">>, <<Slash, "w">>, <<>>),
    Module(<<"v">>, <<>>, <<Slash, "v", Slash, "m">>),
    Module(<<"u">>, <<>>, <<>>),
    Module(<<"@", "s">>, <<Slash, "s">>, <<>>),
    Module(<<"@", "t", Slash, "n">>, <<Slash, "t">>, <<>>) }

\* eyeglass.modules.access(name, context): the record, or nothing
access(name, context) ==
  IF \E m \in Modules : m.name = name
    THEN CHOOSE m \in Modules : m.name = name
    ELSE NoModule

RECURSIVE TakeSeg(_)
\* [^/]* : the longest prefix without a slash
TakeSeg(s) ==
  IF s = <<>> \/ Head(s) = Slash THEN <<>> ELSE <<Head(s)>> \o TakeSeg(Tail(s))

Drop(s, n) == SubSeq(s, n + 1, Len(s))

NoMatch == [matched |-> FALSE, moduleName |-> <<>>, relativePath |-> <<>>]

\* the match of a uri whose module name is `name`
ParsedAs(uri, name, rest) ==
  [matched |-> TRUE, moduleName |-> name,
   relativePath |-> IF rest # <<>> /\ Head(rest) = Slash THEN Tail(rest) ELSE rest]

\* the pattern without its alternative for scoped names
ParseSegs_NoScope(uri, s1, s2) ==
  IF s1 = <<>> THEN NoMatch
  ELSE ParsedAs(uri, s1, Drop(uri, Len(s1)))

ParseSegs(uri, s1, s2) ==
  IF s1 = <<>> THEN NoMatch
  ELSE IF Len(s1) >= 2 /\ s1[1] = "@" /\ s2 # <<>>
    THEN ParsedAs(uri, s1 \o <<Slash>> \o s2, Drop(uri, Len(s1) + 1 + Len(s2)))
  ELSE ParsedAs(uri, s1, Drop(uri, Len(s1)))

SecondSeg(after1) == IF after1 = <<>> THEN <<>> ELSE TakeSeg(Tail(after1))

ParseFirst(uri, s1) == ParseSegs(uri, s1, SecondSeg(Drop(uri, Len(s1))))

\* MODULE_PARSER.exec(uri): /^((?:@[^/]+\/[^/]+)|(?:[^/]+))\/?(.*)/
MODULE_PARSER(uri) == ParseFirst(uri, TakeSeg(uri))

SassExtension == <<".scss">>

\* the candidates of one location, in priority order: the name itself, the
\* name with the extension, the partial, the index files of a directory
ExpandParts(location, name, dir, base, hasExt) ==
  <<PathJoin(location, name)>>
    \o (IF hasExt THEN <<>> ELSE <<PathJoin(location, name \o SassExtension)>>)
    \o (IF base # <<>> /\ base[1] = "_" THEN <<>>
        ELSE <<PathJoin(location,
                 JoinWith(Append(dir, <<"_">> \o base), <<Slash>>)
                   \o (IF hasExt THEN <<>> ELSE SassExtension))>>)
    \o (IF hasExt THEN <<>>
        ELSE << PathJoin(location, name \o <<Slash, "_", "index">> \o SassExtension),
                PathJoin(location, name \o <<Slash, "index">> \o SassExtension) >>)

HasExtension(base) == \E i \in 1..Len(base) : base[i] = SassExtension[1]

ExpandSegs(location, name, segs) ==
  ExpandParts(location, name, SubSeq(segs, 1, Len(segs) - 1), segs[Len(segs)],
              HasExtension(segs[Len(segs)]))

ExpandAt(location, name) == ExpandSegs(location, name, Split(name, Slash))

RECURSIVE AddAll(_, _)
\* an insertion-ordered set: items already present keep their place
AddAll(files, items) ==
  IF items = <<>> THEN files
  ELSE AddAll(IF \E i \in 1..Len(files) : files[i] = Head(items)
                THEN files ELSE Append(files, Head(items)),
              Tail(items))

RECURSIVE NameExpanderFiles(_, _, _)
\* new NameExpander(uri), addLocation(l) for each l of locations, .files
NameExpanderFiles(uri, locations, files) ==
  IF locations = <<>> THEN files
  ELSE NameExpanderFiles(uri, Tail(locations), AddAll(files, ExpandAt(Head(locations), uri)))

(***************************************************************************)
(* Reading candidates (util/SassImplementation.ts, the ModuleImporter part)*)
(***************************************************************************)
RECURSIVE readLoop_NoReturn(_, _)
\* readLoop without the return in the loop: the last readable file wins
readLoop_NoReturn(files, tried) ==
  IF files = <<>> THEN [found |-> FALSE, file |-> <<>>, tried |-> tried]
  ELSE IF readLoop_NoReturn(Tail(files), Append(tried, Head(files))).found
    THEN readLoop_NoReturn(Tail(files), Append(tried, Head(files)))
  ELSE IF ReadErrno(Head(files)) = ""
    THEN [found |-> TRUE, file |-> Head(files), tried |-> Append(tried, Head(files))]
  ELSE readLoop_NoReturn(Tail(files), Append(tried, Head(files)))

RECURSIVE readLoop_StopsAtError(_, _)
\* readLoop that passes over missing files only and gives up at any other error
readLoop_StopsAtError(files, tried) ==
  IF files = <<>> THEN [found |-> FALSE, file |-> <<>>, tried |-> tried]
  ELSE IF ReadErrno(Head(files)) = ""
    THEN [found |-> TRUE, file |-> Head(files), tried |-> Append(tried, Head(files))]
  ELSE IF ReadErrno(Head(files)) # "ENOENT"
    THEN [found |-> FALSE, file |-> <<>>, tried |-> Append(tried, Head(files))]
  ELSE readLoop_StopsAtError(Tail(files), Append(tried, Head(files)))

RECURSIVE readLoop(_, _)
\* the for loop of readFirstFile: a read that throws, for any reason, moves on
readLoop(files, tried) ==
  IF files = <<>> THEN [found |-> FALSE, file |-> <<>>, tried |-> tried]
  ELSE IF ReadErrno(Head(files)) = ""
    THEN [found |-> TRUE, file |-> Head(files), tried |-> Append(tried, Head(files))]
  ELSE readLoop(Tail(files), Append(tried, Head(files)))

NotFoundMessage(uri, possibleFiles) ==
  <<"Could not import ">> \o uri \o <<" from any of the following locations:">>
    \o Flatten([i \in 1..Len(possibleFiles) |-> <<"\n  ">> \o possibleFiles[i]])

\* what the callback of readFirstFile receives, and the files it tried to read
ReadOutcome(uri, possibleFiles, l) ==
  [found |-> l.found,
   file |-> l.file,
   contents |-> IF l.found THEN FileContents(l.file) ELSE <<>>,
   err |-> IF l.found THEN <<>> ELSE NotFoundMessage(uri, possibleFiles),
   tried |-> l.tried]

readFirstFile(uri, possibleFiles) ==
  ReadOutcome(uri, possibleFiles, readLoop(possibleFiles, <<>>))

\* the locations readAbstractFile adds to the name expander
readAbstractLocations(location, incPaths, moduleName) ==
  <<location>>
    \o (IF moduleName # <<>> THEN <<PathJoin(location, moduleName)>> ELSE <<>>)
    \o [i \in 1..Len(incPaths) |-> PathResolve(location, incPaths[i])]

\* readAbstractFile; incPaths is <<>> for null, moduleName is <<>> for null
readAbstractFile(originalUri, uri, location, incPaths, moduleName) ==
  readFirstFile(originalUri,
    NameExpanderFiles(uri, readAbstractLocations(location, incPaths, moduleName), <<>>))


(***************************************************************************)
(* ModuleImporter (util/SassImplementation.ts)                             *)
(*                                                                         *)
(* A step is what one synchronous run of the importer's code does: the     *)
(* events it causes, the files it reads, what it hands to importOnce and   *)
(* to done(), and where it leaves the request.                             *)
(***************************************************************************)
Event(ev, arg, aux) == [ev |-> ev, arg |-> arg, aux |-> aux]

Step0 ==
  [pc |-> "done", cont |-> "none", err |-> <<>>, events |-> <<>>,
   completions |-> <<>>, once |-> <<>>, reads |-> <<>>, registers |-> <<>>]

DataValue(file, contents) == [kind |-> "data", file |-> file, contents |-> contents]
ErrorValue(msg) == [kind |-> "error", file |-> <<>>, contents |-> msg]
NullValue == [kind |-> "null", file |-> <<>>, contents |-> <<>>]
FallbackValue(uri) ==
  [kind |-> "fallback", file |-> <<>>, contents |-> <<"fallback result for ">> \o uri]

\* done(value): the request's completion callback
done(value) ==
  [Step0 EXCEPT !.completions = <<value>>,
                !.events = <<Event("done", <<value.kind>>, value.contents)>>]

\* importUtils.importOnce(data, done): the file is recorded as imported and
\* the data goes to done()
importOnce(file, contents) ==
  [done(DataValue(file, contents)) EXCEPT
     !.once = <<file>>,
     !.events = <<Event("importOnce", file, contents)>> \o @]

\* importUtils.fallback(uri, prev, done, noFallback): the fallback resolver is
\* invoked with the original uri; it answers in a later step
fallback(uri, prev, noFallback, err) ==
  [Step0 EXCEPT !.pc = "fallback", !.cont = noFallback, !.err = err,
                !.events = <<Event("fallback", uri, prev)>>]

\* createHandler whose callback hands the data to done() directly
createHandler_NoImportOnce(errorHandler, uri, prev, r) ==
  IF ~r.found THEN fallback(uri, prev, errorHandler, r.err)
  ELSE done(DataValue(r.file, r.contents))

\* createHandler whose callback reports a miss to done() as well as to the
\* fallback resolver
createHandler_AlsoReportsMiss(errorHandler, uri, prev, r) ==
  IF ~r.found
    THEN [fallback(uri, prev, errorHandler, r.err) EXCEPT
            !.completions = <<ErrorValue(r.err)>>,
            !.events = @ \o <<Event("done", <<"error">>, r.err)>>]
  ELSE importOnce(r.file, r.contents)

\* the callback createHandler(errorHandler) returns, applied to what
\* readFirstFile found
createHandler(errorHandler, uri, prev, r) ==
  IF ~r.found THEN fallback(uri, prev, errorHandler, r.err)
  ELSE importOnce(r.file, r.contents)

\* the events of an attempt that read r.tried, followed by what its handler did
Attempted(kind, locations, r, handled) ==
  [handled EXCEPT
     !.events =
       <<Event("attempt", <<kind>>, locations)>>
         \o [i \in 1..Len(r.tried) |-> Event("read", r.tried[i], <<ReadErrno(r.tried[i])>>)]
         \o @,
     !.reads = IF r.found THEN <<r.file>> ELSE <<>>]

Handled(kind, originalUri, locations, handler, prev, r) ==
  Attempted(kind, locations, r, createHandler(handler, originalUri, prev, r))

\* readAbstractFile(..., createHandler(handler))
Attempt(kind, originalUri, uri, location, incPaths, moduleName, handler, prev) ==
  Handled(kind, originalUri, readAbstractLocations(location, incPaths, moduleName),
          handler, prev,
          readAbstractFile(originalUri, uri, location, incPaths, moduleName))

\* handleRelativeImports that uses the configured include paths whatever it is given
handleRelativeImports_ConfiguredPaths(incPaths, uri, prev, isRealFile) ==
  IF isRealFile
    THEN Attempt("relative", uri, uri, PathDirname(prev), IncludePaths, <<>>, "default", prev)
    ELSE Attempt("relative", uri, uri, Root, IncludePaths, <<>>, "notReal", prev)

\* handleRelativeImports(includePaths); incPaths is <<>> for null
handleRelativeImports(incPaths, uri, prev, isRealFile) ==
  IF isRealFile
    THEN Attempt("relative", uri, uri, PathDirname(prev), incPaths, <<>>, "default", prev)
    ELSE Attempt("relative", uri, uri, Root, incPaths, <<>>, "notReal", prev)

Located(isRealFile, moduleName, relativePath, mod, lookups) ==
  [isRealFile |-> isRealFile, moduleName |-> moduleName, relativePath |-> relativePath,
   mod |-> mod, lookups |-> lookups]

\* the back-compat retry: the scope alone as the module name
Retry(isRealFile, match, context, first, pieces) ==
  Located(isRealFile, pieces[1],
          (IF Len(pieces) >= 2 THEN pieces[2] ELSE <<"undefined">>)
            \o <<Slash>> \o match.relativePath,
          access(pieces[1], context),
          << Event("access", match.moduleName, context),
             Event("access", pieces[1], context) >>)

Lookup(isRealFile, match, context, first) ==
  IF ~first.found /\ match.moduleName[1] = "@"
    THEN Retry(isRealFile, match, context, first, Split(match.moduleName, Slash))
    ELSE Located(isRealFile, match.moduleName, match.relativePath, first,
                 <<Event("access", match.moduleName, context)>>)

LocateIn(isRealFile, match, context) ==
  Lookup(isRealFile, match, context, access(match.moduleName, context))

LocateFrom(isRealFile, match, prev) ==
  LocateIn(isRealFile, match, IF isRealFile THEN prev ELSE Root)

\* the lookups of a uri that matched MODULE_PARSER, with the back-compat retry
Locate(uri, prev) == LocateFrom(existsSync(prev), MODULE_PARSER(uri), prev)

missingMessage(mod) ==
  <<"sassDir is not specified in ">> \o mod.name \o <<"'s package.json">>
    \o (IF mod.mainPath # <<>> THEN <<" or ">> \o mod.mainPath ELSE <<>>)

\* the importer function without the check for a missing sassDir
Resolve_NoConfigCheck(uri, prev, l, sassDir) ==
  IF sassDir # <<>>
    THEN Attempt("module", uri, l.relativePath, sassDir, <<>>, l.moduleName,
                 "relative", prev)
  ELSE handleRelativeImports(IncludePaths, uri, prev, l.isRealFile)

\* the importer function expanding the whole uri in the module attempt
Resolve_ExpandsUri(uri, prev, l, sassDir) ==
  IF l.mod.found /\ sassDir = <<>> /\ ~l.isRealFile
    THEN fallback(uri, prev, "configError", <<>>)
  ELSE IF sassDir # <<>>
    THEN Attempt("module", uri, uri, sassDir, <<>>, l.moduleName, "relative", prev)
  ELSE handleRelativeImports(IncludePaths, uri, prev, l.isRealFile)

\* the importer function after the lookups l
Resolve(uri, prev, l, sassDir) ==
  IF l.mod.found /\ sassDir = <<>> /\ ~l.isRealFile
    THEN fallback(uri, prev, "configError", <<>>)
  ELSE IF sassDir # <<>>
    THEN Attempt("module", uri, l.relativePath, sassDir, <<>>, l.moduleName,
                 "relative", prev)
  ELSE handleRelativeImports(IncludePaths, uri, prev, l.isRealFile)

AfterLookups(uri, prev, l) ==
  [Resolve(uri, prev, l, IF l.mod.found THEN l.mod.sassDir ELSE <<>>) EXCEPT
     !.events = l.lookups \o @]

\* the importer function handing an unparsable uri to the fallback resolver
ModuleImporter_NoMatchFallsBack(uri, prev) ==
  IF ~MODULE_PARSER(uri).matched
    THEN fallback(uri, prev, "notReal", <<>>)
  ELSE AfterLookups(uri, prev, Locate(uri, prev))

\* the importer function, up to the point where it returns
ModuleImporter(uri, prev) ==
  IF ~MODULE_PARSER(uri).matched
    THEN [Step0 EXCEPT !.pc = "thrown", !.err = <<"invalid uri: ">> \o uri,
                       !.events = <<Event("throw", uri, <<>>)>>]
  ELSE AfterLookups(uri, prev, Locate(uri, prev))

\* noFallback whose module-relative handler reports the error without a retry
noFallback_NoRetry(cont, uri, prev, fr) ==
  CASE cont = "configError" -> done(ErrorValue(missingMessage(fr.mod)))
    [] cont = "relative" -> done(ErrorValue(fr.err))
    [] cont = "default" -> done(ErrorValue(fr.err))
    [] cont = "notReal" ->
         done(ErrorValue(<<"Could not import ">> \o uri \o <<" from ">> \o prev))
    [] cont = "null" -> done(NullValue)

\* noFallback whose relative handler is always the default one
noFallback_DefaultOnly(cont, uri, prev, fr) ==
  CASE cont = "configError" -> done(ErrorValue(missingMessage(fr.mod)))
    [] cont = "relative" -> handleRelativeImports(<<>>, uri, prev, fr.isRealFile)
    [] cont = "default" -> done(ErrorValue(fr.err))
    [] cont = "notReal" -> done(ErrorValue(fr.err))
    [] cont = "null" -> done(NullValue)

\* the noFallback continuation handed to importUtils.fallback
noFallback(cont, uri, prev, fr) ==
  CASE cont = "configError" -> done(ErrorValue(missingMessage(fr.mod)))
    [] cont = "relative" -> handleRelativeImports(<<>>, uri, prev, fr.isRealFile)
    [] cont = "default" -> done(ErrorValue(fr.err))
    [] cont = "notReal" ->
         done(ErrorValue(<<"Could not import ">> \o uri \o <<" from ">> \o prev))
    [] cont = "null" -> done(NullValue)

(***************************************************************************)
(* FSImporter                                                              *)
(***************************************************************************)
Letters ==
  {"a", "b", "c", "d", "e", "f", "g", "h", "i", "j", "k", "l", "m", "n", "o", "p", "q",
   "r", "s", "t", "u", "v", "w", "x", "y", "z"}
    \cup {"A", "B", "C", "D", "E", "F", "G", "H", "I", "J", "K", "L", "M", "N", "O", "P",
          "Q", "R", "S", "T", "U", "V", "W", "X", "Y", "Z"}
Digits == {"0", "1", "2", "3", "4", "5", "6", "7", "8", "9"}

\* [-_a-zA-Z] and [-_a-zA-Z0-9]
IdStart == {"-", "_"} \cup Letters
IdChar == IdStart \cup Digits

\* the identifier of uri.match(/^fs\(([-_a-zA-Z][-_a-zA-Z0-9]+)\)$/), <<>> for no match
fsURI(uri) ==
  IF /\ Len(uri) >= 6
     /\ SubSeq(uri, 1, 3) = <<"f", "s", "(">>
     /\ uri[Len(uri)] = ")"
     /\ uri[4] \in IdStart
     /\ \A i \in 5..(Len(uri) - 1) : uri[i] \in IdChar
    THEN SubSeq(uri, 4, Len(uri) - 1)
    ELSE <<>>

RootToken == <<"r", "o", "o", "t">>

\* absolutePath without the case of the identifier "root"
fsAbsolutePath_NoRootCase(identifier, prev) ==
  IF ~existsSync(prev) THEN PathResolve(Cwd, <<Dot>>)
  ELSE PathResolve(Cwd, PathDirname(prev))

\* the directory FSImporter binds the identifier to
fsAbsolutePath(identifier, prev) ==
  IF identifier = RootToken THEN Root
  ELSE IF ~existsSync(prev) THEN PathResolve(Cwd, <<Dot>>)
  ELSE PathResolve(Cwd, PathDirname(prev))

fsContents(identifier, absolutePath) ==
  <<"@import \"eyeglass/fs\"; @include fs-register-path(">> \o identifier
    \o <<", \"">> \o absolutePath \o <<"\");">>

\* an import-once key that leaves the directory out
fsFile_TokenOnly(identifier, absolutePath) == <<"fs:">> \o identifier

fsFile(identifier, absolutePath) ==
  <<"fs:">> \o identifier \o <<":">> \o absolutePath

Registration(identifier, absolutePath, file) ==
  [token |-> identifier, path |-> absolutePath, key |-> file]

\* the branch that hands the synthesized data to done() directly
fsRegister_Direct(identifier, absolutePath) ==
  [done(DataValue(fsFile(identifier, absolutePath), fsContents(identifier, absolutePath)))
     EXCEPT !.registers =
       <<Registration(identifier, absolutePath, fsFile(identifier, absolutePath))>>]

\* the branch of FSImporter for a uri that matched
fsRegister(identifier, absolutePath) ==
  [importOnce(fsFile(identifier, absolutePath), fsContents(identifier, absolutePath))
     EXCEPT !.registers =
       <<Registration(identifier, absolutePath, fsFile(identifier, absolutePath))>>]

\* FSImporter registering whatever stands between "fs(" and ")"
FSImporter_AnyToken(uri, prev) ==
  IF Len(uri) >= 5 /\ SubSeq(uri, 1, 3) = <<"f", "s", "(">> /\ uri[Len(uri)] = ")"
    THEN fsRegister(SubSeq(uri, 4, Len(uri) - 1),
                    fsAbsolutePath(SubSeq(uri, 4, Len(uri) - 1), prev))
    ELSE fallback(uri, prev, "null", <<>>)

\* the importer function of FSImporter
FSImporter(uri, prev) ==
  IF fsURI(uri) # <<>>
    THEN fsRegister(fsURI(uri), fsAbsolutePath(fsURI(uri), prev))
    ELSE fallback(uri, prev, "null", <<>>)

(***************************************************************************)
(* Import requests of one compilation                                      *)
(***************************************************************************)
PrevFile == <<Slash, "q", Slash, "x">>
Stdin == <<"stdin">>
Prevs == {PrevFile, Stdin}

Uris ==
  { <<"w", Slash, "b">>, <<"v", Slash, "b">>, <<"u", Slash, "b">>,
    <<"@", "s", Slash, "n", Slash, "b">>, <<"@", "t", Slash, "n", Slash, "b">>,
    <<"@", "r">>, <<"b">>, <<>>, <<Slash, "b">> }

DiskPaths ==
  { <<Slash, "w", Slash, "_", "b", ".scss">>,
    <<Slash, "w", Slash, "b">>,
    <<Slash, "w", Slash, "w", Slash, "b", ".scss">>,
    <<Slash, "q", Slash, "w", Slash, "b", ".scss">>,
    <<Slash, "q", Slash, "i", Slash, "b", ".scss">>,
    <<Slash, "s", Slash, "n", Slash, "b", ".scss">> }

DiskKinds == {"file", "dir", "locked"}

\* the importing stylesheet, and at most MaxFiles of DiskPaths
ImportDisks ==
  UNION { { k @@ (PrevFile :> "file") : k \in [S -> DiskKinds] } :
            S \in {T \in SUBSET DiskPaths : Cardinality(T) <= MaxFiles} }

NoReq == [uri |-> <<>>, prev |-> <<>>]
NoFrame ==
  [isRealFile |-> FALSE, moduleName |-> <<>>, relativePath |-> <<>>, mod |-> NoModule,
   cont |-> "none", err |-> <<>>]

Bump(count, files) ==
  IF files = <<>> THEN count
  ELSE IF files[1] \in DOMAIN count THEN [count EXCEPT ![files[1]] = @ + 1]
  ELSE count @@ (files[1] :> 1)

Apply(st) ==
  /\ pc' = st.pc
  /\ trace' = trace \o st.events
  /\ completions' = completions \o st.completions
  /\ imported' = imported \cup {st.once[i] : i \in 1..Len(st.once)}
  /\ readCount' = Bump(readCount, st.reads)
  /\ delivered' = Bump(delivered, st.once)
  /\ registrations' = registrations \cup {st.registers[i] : i \in 1..Len(st.registers)}

FrameOf(l, st) ==
  [isRealFile |-> l.isRealFile, moduleName |-> l.moduleName,
   relativePath |-> l.relativePath, mod |-> l.mod, cont |-> st.cont, err |-> st.err]

Requested(uri, prev, st) ==
  /\ req' = [uri |-> uri, prev |-> prev]
  /\ frame' = IF MODULE_PARSER(uri).matched THEN FrameOf(Locate(uri, prev), st)
            ELSE NoFrame
  /\ Apply(st)

\* the compiler meets an import statement and calls the importer
Import ==
  /\ pc = "idle"
  /\ nRequests < MaxRequests
  /\ \E uri \in Uris, prev \in Prevs : Requested(uri, prev, ModuleImporter(uri, prev))
  /\ nRequests' = nRequests + 1
  /\ UNCHANGED <<disk, host, sandboxVars>>

\* the fallback resolver completes the request with a result of its own
FallbackCompletes ==
  /\ pc = "fallback"
  /\ Apply(done(FallbackValue(req.uri)))
  /\ UNCHANGED <<req, frame, nRequests, disk, host, sandboxVars>>

Continued(st) ==
  /\ Apply(st)
  /\ frame' = [frame EXCEPT !.cont = st.cont, !.err = st.err]

\* the fallback resolver reports nothing: the noFallback continuation runs
FallbackReportsNothing ==
  /\ pc = "fallback"
  /\ Continued(noFallback(frame.cont, req.uri, req.prev, frame))
  /\ UNCHANGED <<req, nRequests, disk, host, sandboxVars>>

\* the compiler takes the completion and goes on with the stylesheet
CompilerContinues ==
  /\ pc = "done"
  /\ pc' = "idle"
  /\ req' = NoReq
  /\ frame' = NoFrame
  /\ trace' = <<>>
  /\ completions' = <<>>
  /\ UNCHANGED <<imported, readCount, delivered, nRequests, registrations, disk, host,
                 sandboxVars>>

OtherFile == <<Slash, "r", Slash, "y">>

FsUris ==
  { <<"f", "s", "(", "r", "o", "o", "t", ")">>,
    <<"f", "s", "(", "a", "b", ")">>,
    <<"f", "s", "(", "a", ")">>,
    <<"f", "s", "(", "1", "a", ")">>,
    <<"b">> }

\* a requesting file named relative to the working directory
RelFile == <<"x">>

FsPrevs == {PrevFile, OtherFile, RelFile, Stdin}

FsDisks ==
  { [p \in {PrevFile, OtherFile} |-> "file"],
    [p \in {PrevFile, Cwd \o <<Slash>> \o RelFile} |-> "file"] }

FsRequested(uri, prev, st) ==
  /\ req' = [uri |-> uri, prev |-> prev]
  /\ frame' = [NoFrame EXCEPT !.isRealFile = existsSync(prev), !.cont = st.cont]
  /\ Apply(st)

\* the compiler meets an import statement and calls FSImporter
ImportFS ==
  /\ pc = "idle"
  /\ nRequests < MaxRequests
  /\ \E uri \in FsUris, prev \in FsPrevs : FsRequested(uri, prev, FSImporter(uri, prev))
  /\ nRequests' = nRequests + 1
  /\ UNCHANGED <<disk, host, sandboxVars>>

ImportIdle ==
  /\ imported = {}
  /\ pc = "idle"
  /\ req = NoReq
  /\ frame = NoFrame
  /\ trace = <<>>
  /\ completions = <<>>
  /\ readCount = <<>>
  /\ delivered = <<>>
  /\ nRequests = 0
  /\ registrations = {}

\* a POSIX host with path normalization left on
PosixHost == [sep |-> Slash, normalizePaths |-> "unset"]

SandboxIdle ==
  /\ host = PosixHost
  /\ fnCall = NoCall
  /\ fnResult = NoResult
  /\ fsCalls = <<>>
  /\ globbed = <<>>

InitSandbox ==
  /\ fsSandbox \in SandboxChoices
  /\ disk \in SandboxDisks
  /\ SandboxIdle
  /\ ImportIdle

NextSandbox ==
  \/ StylesheetCalls
  \/ StylesheetContinues
  \/ FsExists
  \/ FsReadFile
  \/ FsInfo
  \/ FsListFiles
  \/ FsListDirectories
  \/ FsParseFilename
  \/ FsJoin
  \/ FsAbsolutePath

InitImport ==
  /\ fsSandbox = [restricted |-> FALSE, roots |-> <<>>]
  /\ disk \in ImportDisks
  /\ SandboxIdle
  /\ ImportIdle

NextImport ==
  \/ Import
  \/ FallbackCompletes
  \/ FallbackReportsNothing
  \/ CompilerContinues

InitFS ==
  /\ fsSandbox = [restricted |-> FALSE, roots |-> <<>>]
  /\ disk \in FsDisks
  /\ SandboxIdle
  /\ ImportIdle

NextFS ==
  \/ ImportFS
  \/ FallbackCompletes
  \/ FallbackReportsNothing
  \/ CompilerContinues

(***************************************************************************)
(* URI (util/URI.ts)                                                       *)
(***************************************************************************)
Backslash == "\\"

\* stdSep
stdSep == Slash

\* the characters rAllPathSep matches: /[\/\\]+/g
IsPathSep(c) == c = Slash \/ c = Backslash

shouldNormalizePathSep_FlagOnly == host.normalizePaths # "false"

\* shouldNormalizePathSep()
shouldNormalizePathSep == host.sep = Backslash \/ host.normalizePaths # "false"

RECURSIVE ReplaceRuns(_, _, _)
\* uri.replace(rAllPathSep, sep); inRun says the previous character was
\* part of the run being replaced
ReplaceRuns(uri, sep, inRun) ==
  IF uri = <<>> THEN <<>>
  ELSE IF IsPathSep(Head(uri))
    THEN (IF inRun THEN <<>> ELSE <<sep>>) \o ReplaceRuns(Tail(uri), sep, TRUE)
  ELSE <<Head(uri)>> \o ReplaceRuns(Tail(uri), sep, FALSE)

convertSeparator(uri, sep) ==
  IF shouldNormalizePathSep THEN ReplaceRuns(uri, sep, FALSE) ELSE uri

MapChars(s, from, to) == [i \in 1..Len(s) |-> IF s[i] = from THEN to ELSE s[i]]

\* path.normalize of the host: on a host whose separator is the backslash
\* the path has only backslashes by the time it is normalized
HostNormalize(p) ==
  IF host.sep = Slash THEN PathNormalize(p)
  ELSE MapChars(PathNormalize(MapChars(p, Backslash, Slash)), Slash, Backslash)

RECURSIVE TakeUntil(_, _)
\* the longest prefix of s without a character of stops
TakeUntil(s, stops) ==
  IF s = <<>> \/ Head(s) \in stops THEN <<>>
  ELSE <<Head(s)>> \o TakeUntil(Tail(s), stops)

NoFragments == [matched |-> FALSE, path |-> <<>>, search |-> <<>>, hash |-> <<>>]

\* groups 2 and 3 of rUriFragments in what follows the path; an unmatched
\* group is undefined, written <<>>
FragmentsAfter(pathname, rest) ==
  [matched |-> TRUE,
   path |-> pathname,
   search |-> IF rest # <<>> /\ Head(rest) = "?" THEN TakeUntil(rest, {"#"}) ELSE <<>>,
   hash |-> IF rest # <<>> /\ Head(rest) = "?"
              THEN Drop(rest, Len(TakeUntil(rest, {"#"})))
              ELSE rest]

\* rUriFragments.exec(uri): /^([^\?#]+)(\?[^#]*)?(#.*)?/
rUriFragments(uri) ==
  IF TakeUntil(uri, {"?", "#"}) = <<>> THEN NoFragments
  ELSE FragmentsAfter(TakeUntil(uri, {"?", "#"}), Drop(uri, Len(TakeUntil(uri, {"?", "#"}))))

\* setPath(pathname)
setPath(pathname, sep) ==
  convertSeparator(HostNormalize(convertSeparator(pathname, host.sep)), sep)

RECURSIVE StripSearchDelim(_)
\* the rest of search after /^[\?\&]*/
StripSearchDelim(search) ==
  IF search # <<>> /\ Head(search) \in {"?", "&"} THEN StripSearchDelim(Tail(search))
  ELSE search

\* setQuery(search): addQuery on an empty search
setQuery(search) == IF search = <<>> THEN <<>> ELSE <<"?">> \o StripSearchDelim(search)

\* setHash(hash)
setHash(hash) == hash

UriObject(sep, pathname, search, hash) ==
  [type |-> "uri", sep |-> sep, path |-> pathname, search |-> search, hash |-> hash]

UriOf(f, sep) ==
  IF ~f.matched THEN Thrown("TypeError")
  ELSE UriObject(sep, setPath(f.path, sep), setQuery(f.search), setHash(f.hash))

\* new URI(uri, sep): uriFragments[1] of a null match throws a TypeError
NewURI(uri, sep) == UriOf(rUriFragments(uri), sep)

StringResult(chars) == [type |-> "string", value |-> chars]

\* uri.toString()
UriToString(u) ==
  IF u.type = "thrown" THEN u ELSE StringResult(u.path \o u.search \o u.hash)

\* uri.getPath(sep) without relativeTo
UriGetPath(u, sep) ==
  IF u.type = "thrown" THEN u ELSE StringResult(convertSeparator(u.path, sep))

NonEmpty(fragment) == fragment # <<>>

\* URI.join(...fragments)
UriJoin(fragments) ==
  UriGetPath(NewURI(JoinWith(SelectSeq(fragments, NonEmpty), <<stdSep>>), stdSep), stdSep)

\* URI.web(uri)
UriWeb(uri) == UriToString(NewURI(uri, stdSep))

\* URI.system(uri)
UriSystem(uri) == UriGetPath(NewURI(uri, stdSep), host.sep)

UriChars == {"a", Dot, Slash, Backslash, "?", "#"}

\* every string of at most MaxUriChars of these characters
UriStrings == SeqsUpTo(UriChars, MaxUriChars)

FragmentChoices ==
  {<<>>, <<"a">>, <<Slash, "a", Slash>>, <<Dot, Dot, Backslash, "a">>, <<"?", "a">>}

FragmentLists == SeqsUpTo(FragmentChoices, MaxFragments)

Hosts ==
  [sep : {Slash, Backslash}, normalizePaths : {"unset", "false", "true"}]

Returns(fn, args, value) ==
  /\ fnCall = NoCall
  /\ fnCall' = [fn |-> fn, args |-> args]
  /\ fnResult' = value
  /\ UNCHANGED <<fsSandbox, disk, host, fsCalls, globbed>>
  /\ UNCHANGED importVars

CallsNewURI == \E uri \in UriStrings : Returns("new URI", <<uri>>, NewURI(uri, stdSep))

CallsUriWeb == \E uri \in UriStrings : Returns("URI.web", <<uri>>, UriWeb(uri))

CallsUriSystem == \E uri \in UriStrings : Returns("URI.system", <<uri>>, UriSystem(uri))

CallsUriJoin == \E fs \in FragmentLists : Returns("URI.join", fs, UriJoin(fs))

CallsConvertSeparator ==
  \E uri \in UriStrings, sep \in {Slash, Backslash} :
    Returns("convertSeparator", <<uri, <<sep>>>>, StringResult(convertSeparator(uri, sep)))

InitURI ==
  /\ host \in Hosts
  /\ fsSandbox = [restricted |-> FALSE, roots |-> <<>>]
  /\ disk = <<>>
  /\ fnCall = NoCall
  /\ fnResult = NoResult
  /\ fsCalls = <<>>
  /\ globbed = <<>>
  /\ ImportIdle

NextURI ==
  \/ CallsNewURI
  \/ CallsUriWeb
  \/ CallsUriSystem
  \/ CallsUriJoin
  \/ CallsConvertSeparator
  \/ StylesheetContinues

\* the uris handed to MODULE_PARSER: every string of at most MaxUriLen of
\* these characters
ParseChars == {"@", "a", Slash}

ParseUris == SeqsUpTo(ParseChars, MaxUriLen)

\* what MODULE_PARSER.exec returns: null, or the groups $1 and $2
MatchValue(m) ==
  IF m.matched THEN [type |-> "match", value |-> <<m.moduleName, m.relativePath>>]
  ELSE [type |-> "null", value |-> <<>>]

\* the importer matches a uri against MODULE_PARSER
ModuleParserExec ==
  /\ fnCall = NoCall
  /\ \E uri \in ParseUris :
       /\ fnCall' = [fn |-> "MODULE_PARSER.exec", args |-> <<uri>>]
       /\ fnResult' = MatchValue(MODULE_PARSER(uri))
  /\ UNCHANGED <<fsSandbox, disk, host, fsCalls, globbed>>
  /\ UNCHANGED importVars

InitParse ==
  /\ fsSandbox = [restricted |-> FALSE, roots |-> <<>>]
  /\ disk = <<>>
  /\ SandboxIdle
  /\ ImportIdle

NextParse == ModuleParserExec \/ StylesheetContinues

\* one compilation with both importers installed: the disks of FSImporter's
\* requests, and those with at most the partial /w/_b.scss besides PrevFile
ImportersDisks ==
  FsDisks \cup
    {d \in ImportDisks : DOMAIN d \subseteq {PrevFile, <<Slash, "w", Slash, "_", "b", ".scss">>}}

InitImporters ==
  /\ fsSandbox = [restricted |-> FALSE, roots |-> <<>>]
  /\ disk \in ImportersDisks
  /\ SandboxIdle
  /\ ImportIdle

NextImporters ==
  \/ Import
  \/ ImportFS
  \/ FallbackCompletes
  \/ FallbackReportsNothing
  \/ CompilerContinues

vars == <<host, fsSandbox, disk, fnCall, fnResult, fsCalls, globbed, imported, pc, req, frame, trace,
          completions, readCount, delivered, nRequests, registrations>>

SpecFS == InitFS /\ [][NextFS]_vars

SpecSandbox == InitSandbox /\ [][NextSandbox]_vars

SpecImporters == InitImporters /\ [][NextImporters]_vars

SpecParse == InitParse /\ [][NextParse]_vars

SpecURI == InitURI /\ [][NextURI]_vars

\* the fallback resolver answers every invocation: it completes the request
\* or calls the noFallback continuation
FallbackAnswers == WF_vars(FallbackCompletes \/ FallbackReportsNothing)

SpecImportFair == InitImport /\ [][NextImport]_vars /\ FallbackAnswers

SpecImport == InitImport /\ [][NextImport]_vars


(***************************************************************************)
(* Properties of the sandbox                                               *)
(***************************************************************************)
IsPrefixSegs(a, b) == Len(a) <= Len(b) /\ SubSeq(b, 1, Len(a)) = a

\* p, resolved, is rootDir or lies below it
WithinRoot(p, rootDir) == IsPrefixSegs(ResolvedSegs(rootDir), ResolvedSegs(p))

WithinSomeRoot(p) ==
  \E i \in 1..Len(fsSandbox.roots) : WithinRoot(p, fsSandbox.roots[i])

SandboxedFns == {"exists", "read-file", "info", "list-files", "list-directories"}

StringArgs == \A i \in 1..Len(fnCall.args) : isSassString(fnCall.args[i])

\* a sandboxed function was called with strings and has completed
Completed == fnCall.fn \in SandboxedFns /\ fnResult # NoResult /\ StringArgs

CallPath == fnCall.args[1].value

IsViolationOf(value, location) ==
  value.type = "error" /\ value.value = accessViolation(location).value

\* C2: a path is admitted iff the sandbox is unrestricted or the path is equal
\* to, or lies inside, at least one allowed root, whatever its segments below
\* the root are called.  (Stated on the exists function, which reports a
\* security violation exactly when inSandbox is false.)
C2_AdmittedIffWithinARoot ==
  (Completed /\ fnCall.fn = "exists") =>
    (~IsViolationOf(fnResult, CallPath)
       <=> (~fsSandbox.restricted \/ WithinSomeRoot(CallPath)))

\* C3: a sandboxed operation whose path is outside the sandbox makes no
\* filesystem call and completes with the security violation naming that
\* path; a permitted path that does not exist never gets that result.
C3_RejectedPathTouchesNothing ==
  /\ (Completed /\ ~inSandbox(CallPath))
       => (fsCalls = <<>> /\ IsViolationOf(fnResult, CallPath))
  /\ (Completed /\ inSandbox(CallPath) /\ ~existsSync(CallPath))
       => ~IsViolationOf(fnResult, CallPath)

C3_Witness ==
  /\ Completed
  /\ fnCall.fn = "list-directories"
  /\ fsSandbox.restricted
  /\ ~inSandbox(CallPath)

(***************************************************************************)
(* Properties of ModuleImporter                                            *)
(***************************************************************************)
IsAttempt(i, kind) == trace[i].ev = "attempt" /\ trace[i].arg = <<kind>>

\* the request reached the module branch: a record with a stylesheet directory
ModuleBranch == \E i \in 1..Len(trace) : IsAttempt(i, "module")

RelativeAttempted == \E i \in 1..Len(trace) : IsAttempt(i, "relative")

FallbackInvoked == \E i \in 1..Len(trace) : trace[i].ev = "fallback"

\* C1 as stated: in the module branch the fallback resolver is invoked only
\* after the relative attempt has run.
C1_RelativeAttemptBeforeFallback ==
  \A i \in 1..Len(trace) :
    (ModuleBranch /\ trace[i].ev = "fallback")
      => \E j \in 1..(i - 1) : IsAttempt(j, "relative")

\* a relative attempt that reads no candidate successfully turns to the
\* fallback resolver again
RelativeMissFallsBack(j, cands) ==
  (\A k \in 1..Len(cands) : ReadErrno(cands[k]) # "")
    => /\ j + Len(cands) + 1 <= Len(trace)
       /\ trace[j + Len(cands) + 1].ev = "fallback"

\* C1 amended: in the module branch the fallback resolver is invoked after
\* every miss, the module-relative one first; the relative attempt runs only
\* as the continuation of a fallback that reported nothing, and it does run
\* then; when it misses too the fallback resolver is invoked once more.
C1_FallbackBeforeRelativeAttempt ==
  ModuleBranch =>
    /\ \A j \in 1..Len(trace) :
         IsAttempt(j, "relative")
           => RelativeMissFallsBack(j, NameExpanderFiles(req.uri, trace[j].aux, <<>>))
    /\ \A j \in 1..Len(trace) :
         IsAttempt(j, "relative") => (j > 1 /\ trace[j - 1].ev = "fallback")
    /\ \A i \in 1..Len(trace) :
         trace[i].ev = "fallback"
           => \A k \in 1..(i - 1) : trace[k].ev = "read" => trace[k].aux # <<"">>
    /\ (pc = "done" /\ FallbackInvoked /\ completions[1].kind # "fallback")
         => RelativeAttempted

C1_Witness ==
  /\ pc = "done"
  /\ ModuleBranch
  /\ RelativeAttempted
  /\ completions[1].kind = "data"

\* the request's record has no stylesheet directory and prev is no real file
MissingSassDir ==
  /\ pc = "done"
  /\ frame.mod.found
  /\ frame.mod.sassDir = <<>>
  /\ ~frame.isRealFile

IsAccess(e) == e.ev = "access"

Lookups == SelectSeq(trace, IsAccess)

\* the part of a scoped module name after "<scope>/"
NameAfterScope(name) == Drop(name, Len(TakeSeg(name)) + 1)

LookupsAsClaimed(m, context) ==
  IF ~access(m.moduleName, context).found /\ m.moduleName[1] = "@"
    THEN /\ Lookups = << Event("access", m.moduleName, context),
                         Event("access", TakeSeg(m.moduleName), context) >>
         /\ frame.moduleName = TakeSeg(m.moduleName)
         /\ frame.relativePath
              = NameAfterScope(m.moduleName) \o <<Slash>> \o m.relativePath
    ELSE /\ Lookups = <<Event("access", m.moduleName, context)>>
         /\ frame.moduleName = m.moduleName
         /\ frame.relativePath = m.relativePath

\* C7: when the first lookup of a name starting with "@" finds nothing, the
\* registry is queried once more, with the scope segment alone and the same
\* context, and the relative path becomes "<name>/<original relative path>";
\* otherwise there is one lookup and the parsed name and path are kept.
C7_ScopedRetryOnce ==
  (pc \in {"fallback", "done"} /\ MODULE_PARSER(req.uri).matched)
    => LookupsAsClaimed(MODULE_PARSER(req.uri),
                        IF frame.isRealFile THEN req.prev ELSE Root)

BaseDir == IF frame.isRealFile THEN PathDirname(req.prev) ELSE Root

ResolvedIncludes(base) ==
  [k \in 1..Len(IncludePaths) |-> PathResolve(base, IncludePaths[k])]

RECURSIVE ReadsFrom(_, _)
\* the files of the read events from trace[j] on, up to the next other event
ReadsFrom(tr, j) ==
  IF j > Len(tr) \/ tr[j].ev # "read" THEN <<>>
  ELSE <<tr[j].arg>> \o ReadsFrom(tr, j + 1)

\* the name attempt i expands and the candidates of its locations
ExpandedName(i) == IF trace[i].arg = <<"module">> THEN frame.relativePath ELSE req.uri

Candidates(i) == NameExpanderFiles(ExpandedName(i), trace[i].aux, <<>>)

\* C8 as stated: every relative attempt probes under the base directory and
\* then under each include path resolved against it.
C8_EveryRelativeAttemptUsesIncludePaths ==
  \A i \in 1..Len(trace) :
    IsAttempt(i, "relative")
      => trace[i].aux = <<BaseDir>> \o ResolvedIncludes(BaseDir)

\* C8 amended: a relative attempt probes under the base directory and then
\* under each include path resolved against it, in configured order, except
\* the attempt run after a module-relative miss, which probes under the base
\* directory only.
C8_IncludePathsUnlessAfterModuleMiss ==
  \A i \in 1..Len(trace) :
    IsAttempt(i, "relative") =>
      /\ trace[i].aux
           = <<BaseDir>> \o (IF ModuleBranch THEN <<>> ELSE ResolvedIncludes(BaseDir))
      /\ IsPrefixSegs(ReadsFrom(trace, i + 1), Candidates(i))

C8_Witness ==
  /\ pc = "done"
  /\ frame.isRealFile
  /\ \E i \in 1..Len(trace) :
       /\ IsAttempt(i, "relative")
       /\ ~ModuleBranch
       /\ \E j \in (i + 1)..Len(trace) :
            /\ trace[j].ev = "importOnce"
            /\ IsPrefixSegs(ResolvedSegs(ResolvedIncludes(BaseDir)[1]),
                            ResolvedSegs(trace[j].arg))

Readable(p) == ReadErrno(p) = ""

RECURSIVE FirstExisting(_, _)
\* the index of the first of files[k..] that exists on disk, 0 when none does
FirstExisting(files, k) ==
  IF k > Len(files) THEN 0
  ELSE IF existsSync(files[k]) THEN k
  ELSE FirstExisting(files, k + 1)

RECURSIVE FirstReadable(_, _)
\* the index of the first of files[k..] whose read succeeds, 0 when none does
FirstReadable(files, k) ==
  IF k > Len(files) THEN 0
  ELSE IF Readable(files[k]) THEN k
  ELSE FirstReadable(files, k + 1)

\* attempt i read candidates cands in order up to the k-th, which it delivered;
\* with k = 0 it read them all and turned to the fallback resolver
AttemptStopsAt(i, cands, k, reads) ==
  /\ i + Len(reads) + 1 <= Len(trace)
  /\ IF k = 0
       THEN reads = cands /\ trace[i + Len(reads) + 1].ev = "fallback"
       ELSE /\ reads = SubSeq(cands, 1, k)
            /\ trace[i + Len(reads) + 1].ev = "importOnce"
            /\ trace[i + Len(reads) + 1].arg = cands[k]

HardErrnos == {"EISDIR", "EACCES"}

IsHardFailure(i) == trace[i].ev = "read" /\ trace[i].aux[1] \in HardErrnos

\* the attempt event the read at trace[i] belongs to
AttemptOf(i) ==
  CHOOSE a \in 1..(i - 1) :
    trace[a].ev = "attempt" /\ \A b \in (a + 1)..(i - 1) : trace[b].ev = "read"

NextCandidateOrFallback(i, cands, pos) ==
  /\ i < Len(trace)
  /\ IF pos < Len(cands)
       THEN trace[i + 1].ev = "read" /\ trace[i + 1].arg = cands[pos + 1]
       ELSE trace[i + 1].ev = "fallback"

CountOf(count, f) == IF f \in DOMAIN count THEN count[f] ELSE 0

NotFoundEnding ==
  /\ pc = "done"
  /\ completions[1].kind = "error"
  /\ \E i \in 1..Len(trace) : trace[i].ev = "attempt"

\* msg has the line "\n  <p>"
Enumerates(msg, p) ==
  \E k \in 1..Len(msg) :
    /\ msg[k] = "\n  "
    /\ k + Len(p) <= Len(msg)
    /\ SubSeq(msg, k + 1, k + Len(p)) = p
    /\ (k + Len(p) = Len(msg) \/ msg[k + Len(p) + 1] = "\n  ")

IsLastAttempt(i) ==
  /\ trace[i].ev = "attempt"
  /\ \A j \in (i + 1)..Len(trace) : trace[j].ev # "attempt"

Returned == req # NoReq /\ pc # "fallback"

\* C12: every terminal error of a request, the parse error included, reaches
\* the completion callback; the importer never throws to its caller instead.
C12_ErrorsReachCompletion ==
  Returned => (pc = "done" /\ Len(completions) = 1)

\* C13: a uri the module pattern does not match fails at once with the parse
\* error: no registry lookup, no probe, no fallback, no completion.
C13_ParseErrorIsImmediate ==
  (req # NoReq /\ ~MODULE_PARSER(req.uri).matched) =>
    /\ pc = "thrown"
    /\ trace = <<Event("throw", req.uri, <<>>)>>
    /\ completions = <<>>

C13_Witness ==
  /\ pc = "thrown"
  /\ req.uri = <<Slash, "b">>
  /\ trace # <<>>

(***************************************************************************)
(* Properties of FSImporter's bindings                                     *)
(***************************************************************************)
\* the token of a uri fs(<token>)
TokenOf(uri) == SubSeq(uri, 4, Len(uri) - 1)

\* the uri is fs(<token>) with a token the importer accepts
IsFsUri(uri) == fsURI(uri) # <<>>

\* the directory of each requesting file of FsPrevs, as an absolute path
DirectoryOfPrev(prev) ==
  CASE prev = PrevFile -> <<Slash, "q">>
    [] prev = OtherFile -> <<Slash, "r">>
    [] OTHER -> <<Slash, "c">>

OnDisk(prev) == PathResolve(Cwd, prev) \in DOMAIN disk

ExpectedDirectory(token, prev) ==
  IF token = <<"r", "o", "o", "t">> THEN Root
  ELSE IF OnDisk(prev) THEN DirectoryOfPrev(prev)
  ELSE <<Slash, "c">>

RegistersAs(token, dir) ==
  /\ trace = << Event("importOnce", <<"fs:">> \o token \o <<":">> \o dir,
                      <<"@import \"eyeglass/fs\"; @include fs-register-path(">>
                        \o token \o <<", \"">> \o dir \o <<"\");">>) ,
                Event("done", <<"data">>,
                      <<"@import \"eyeglass/fs\"; @include fs-register-path(">>
                        \o token \o <<", \"">> \o dir \o <<"\");">>) >>
  /\ \E r \in registrations : r.token = token /\ r.path = dir

\* C15: fs(token) binds the token to the project root when the token is
\* "root", else to the directory of the requesting file when that file is on
\* disk, else to the working directory; the synthesized content registers
\* that token with that absolute directory.
C15_TokenBoundToExpectedDirectory ==
  (pc = "done" /\ IsFsUri(req.uri))
    => RegistersAs(TokenOf(req.uri), ExpectedDirectory(TokenOf(req.uri), req.prev))

\* "root" was imported from a file on disk, and another token from a file
\* named relative to the working directory
C15_Witness ==
  /\ pc = "done"
  /\ IsFsUri(req.uri)
  /\ req.prev = RelFile
  /\ OnDisk(req.prev)
  /\ TokenOf(req.uri) # RootToken
  /\ \E r \in registrations : r.token = RootToken

\* C16: a uri that is not fs(token) synthesizes nothing and binds nothing;
\* the fallback resolver is invoked once with the uri and the requesting
\* file, and the request completes with the null value only when the
\* fallback resolver reported nothing.
C16_NoMatchDefersToFallback ==
  (req # NoReq /\ ~IsFsUri(req.uri)) =>
    /\ trace[1] = Event("fallback", req.uri, req.prev)
    /\ \A i \in 2..Len(trace) : trace[i].ev = "done"
    /\ \A r \in registrations : r.token # TokenOf(req.uri)
    /\ pc \in {"fallback", "done"}
    /\ pc = "fallback" => completions = <<>>
    /\ pc = "done" => \/ completions = <<NullValue>>
                      \/ completions = <<FallbackValue(req.uri)>>

C16_Witness ==
  /\ pc = "done"
  /\ req.uri = <<"f", "s", "(", "a", ")">>
  /\ completions = <<NullValue>>

(***************************************************************************)
(* Properties of both importers                                            *)
(***************************************************************************)
IsDataCompletion(e) == e.ev = "done" /\ e.arg = <<"data">>

IsImportOnce(e) == e.ev = "importOnce"

\* C20: in ModuleImporter and in FSImporter file data reaches the completion
\* callback only through importOnce, and importOnce is invoked at most once
\* in a request.
C20_DataOnlyThroughImportOnce ==
  /\ \A i \in 1..Len(trace) :
       IsDataCompletion(trace[i]) =>
         /\ i > 1
         /\ IsImportOnce(trace[i - 1])
         /\ trace[i - 1].aux = trace[i].aux
  /\ \A c \in 1..Len(completions) :
       completions[c].kind = "data" => completions[c].file \in imported
  /\ Len(SelectSeq(trace, IsImportOnce)) <= 1

\* FSImporter completed a request with synthesized data after ModuleImporter
\* had delivered a file
C20_Witness ==
  /\ pc = "done"
  /\ IsFsUri(req.uri)
  /\ completions[1].kind = "data"
  /\ \E f \in DOMAIN delivered : f \in DOMAIN readCount

(***************************************************************************)
(* Properties of the argument checks of the fs functions                   *)
(***************************************************************************)
RECURSIVE FirstNonString(_)
FirstNonString(values) ==
  IF isSassString(Head(values)) THEN FirstNonString(Tail(values)) ELSE Head(values)

\* a function was called with an argument that is not a string, and returned
CalledWithNonString == fnCall # NoCall /\ fnResult # NoResult /\ ~AllStrings(fnCall.args)

\* C17: every function of the surface answers a non-string argument with
\* the type error naming "string", before the sandbox check and before any
\* filesystem access or path computation.
C17_NonStringIsATypeError ==
  CalledWithNonString =>
    /\ fnResult = typeError(StringType, FirstNonString(fnCall.args))
    /\ fsCalls = <<>>

(***************************************************************************)
(* Properties of MODULE_PARSER                                             *)
(***************************************************************************)
Parsed == fnCall.fn = "MODULE_PARSER.exec" /\ fnResult # NoResult

ParsedUri == fnCall.args[1]

\* the uri is made of non-empty segments separated by single slashes
NonEmptySegments(uri) ==
  /\ uri # <<>>
  /\ \A i \in 1..Len(Split(uri, Slash)) : Split(uri, Slash)[i] # <<>>

\* the uri is parsed into the module name of its first n segments and the
\* rest as relative path
ParsedIntoFirst(n, segs) ==
  fnResult = [type |-> "match",
              value |-> << JoinWith(SubSeq(segs, 1, n), <<Slash>>),
                           JoinWith(SubSeq(segs, n + 1, Len(segs)), <<Slash>>) >>]

\* C14 as stated: the module name is the first two segments when the first
\* starts with "@" and a second exists, else the first segment; the relative
\* path is what follows.
C14_ScopeIsAnyAtSegment ==
  (Parsed /\ NonEmptySegments(ParsedUri)) =>
    ParsedIntoFirst(IF Split(ParsedUri, Slash)[1][1] = "@" /\ Len(Split(ParsedUri, Slash)) >= 2
                      THEN 2 ELSE 1,
                    Split(ParsedUri, Slash))

\* C14 amended: the module name is the first two segments when the first is
\* "@" followed by at least one character and a second exists, else the
\* first segment alone (also when that segment is "@" itself); the relative
\* path is what follows.
C14_ScopeNeedsAName ==
  (Parsed /\ NonEmptySegments(ParsedUri)) =>
    ParsedIntoFirst(IF /\ Split(ParsedUri, Slash)[1][1] = "@"
                       /\ Len(Split(ParsedUri, Slash)[1]) >= 2
                       /\ Len(Split(ParsedUri, Slash)) >= 2
                      THEN 2 ELSE 1,
                    Split(ParsedUri, Slash))

\* "@a/a/a" was parsed into module "@a/a" and relative path "a"
C14_Witness ==
  /\ Parsed
  /\ ParsedUri = <<"@", "a", Slash, "a", Slash, "a">>
  /\ fnResult.value = << <<"@", "a", Slash, "a">>, <<"a">> >>

(***************************************************************************)
(* C18, C19: the path normalizer                                           *)
(***************************************************************************)
UriCalls == {"new URI", "URI.web", "URI.system", "URI.join"}

CalledUri == fnCall # NoCall /\ fnCall.fn \in UriCalls

\* C18: constructing a URI and calling URI.join, URI.web and URI.system
\* complete without raising an error for every input string, the empty
\* string and strings that begin with '?' or '#' included.
C18_NormalizerNeverThrows == CalledUri => fnResult.type # "thrown"

Converted == fnCall # NoCall /\ fnCall.fn = "convertSeparator"

ConversionDisabled == host.normalizePaths = "false" /\ host.sep # Backslash

\* the positions of the input that survive the replacement: every character
\* that is no separator, and the first character of every run of separators
KeptPositions(uri) ==
  {i \in 1..Len(uri) : ~IsPathSep(uri[i]) \/ i = 1 \/ ~IsPathSep(uri[i - 1])}

NthKept(uri, j) ==
  CHOOSE k \in KeptPositions(uri) :
    Cardinality({i \in KeptPositions(uri) : i <= k}) = j

EveryRunReplaced(uri, sep, out) ==
  /\ Len(out) = Cardinality(KeptPositions(uri))
  /\ \A j \in 1..Len(out) :
       out[j] = IF IsPathSep(uri[NthKept(uri, j)]) THEN sep ELSE uri[NthKept(uri, j)]

\* C19: separator conversion returns its input unchanged when the flag is
\* set to disabled and the host separator is not the backslash; in every
\* other case every run of '/' and '\' characters of the input is replaced
\* by one instance of the target separator.
C19_ConversionUnlessDisabled ==
  Converted =>
    IF ConversionDisabled
      THEN fnResult.value = fnCall.args[1]
      ELSE EveryRunReplaced(fnCall.args[1], fnCall.args[2][1], fnResult.value)

\* a backslash host with the flag set to disabled still converts a mixed run
C19_Witness ==
  /\ Converted
  /\ host = [sep |-> Backslash, normalizePaths |-> "false"]
  /\ fnCall.args = <<<<"a", Slash, Backslash>>, <<Slash>>>>
  /\ fnResult.value = <<"a", Slash>>

(***************************************************************************)
(* C23: directory listing                                                  *)
(***************************************************************************)
\* a listing whose glob callback ran with entries
Listed ==
  /\ Completed
  /\ fnCall.fn \in {"list-files", "list-directories"}
  /\ globbed # <<>>
  /\ ~globbed[1].error

OfRequestedKind(f) == EndsWithSlash(f) <=> fnCall.fn = "list-directories"

\* the matched entries of the kind the call asks for, in glob's order
Wanted == SelectSeq(globbed[1].files, OfRequestedKind)

WithoutTrailingSlash(f) == IF EndsWithSlash(f) THEN SubSeq(f, 1, Len(f) - 1) ELSE f

EntryOutside(f) ==
  fsSandbox.restricted /\ ~WithinSomeRoot(PathResolve(Cwd, PathJoin(CallPath, f)))

SomeWantedOutside == \E i \in 1..Len(Wanted) : EntryOutside(Wanted[i])

IsEntryViolation(value) ==
  \E i \in 1..Len(globbed[1].files) : IsViolationOf(value, globbed[1].files[i])

\* C23: list-files returns only matched entries that are not directories and
\* list-directories only matched directories without their trailing slash;
\* no entry whose joined path lies outside the sandbox is returned; when an
\* entry of the requested kind lies outside the sandbox the call's one
\* result is a security violation and no list.
C23_ListingPartitionedAndGated ==
  Listed =>
    /\ fnResult.type = "list" \/ IsEntryViolation(fnResult)
    /\ fnResult.type = "list" =>
         /\ fnResult.value = [i \in 1..Len(Wanted) |-> WithoutTrailingSlash(Wanted[i])]
         /\ \A i \in 1..Len(Wanted) : ~EntryOutside(Wanted[i])
    /\ SomeWantedOutside => IsEntryViolation(fnResult)

\* a listing of directories that meets a directory outside the sandbox after
\* one inside it
C23_Witness ==
  /\ Listed
  /\ fnCall.fn = "list-directories"
  /\ Len(Wanted) = 2
  /\ ~EntryOutside(Wanted[1])
  /\ EntryOutside(Wanted[2])
  /\ fnResult.type = "error"

(***************************************************************************)
(* C22: the module-relative attempt                                        *)
(***************************************************************************)
\* the module name in effect: the name of the last registry lookup
NameInEffect == Lookups[Len(Lookups)].arg

\* the record of that lookup
ModuleInEffect == access(NameInEffect, Lookups[Len(Lookups)].aux)

\* the relative path left of the uri: what MODULE_PARSER put after the name,
\* behind the rest of the name when the name was re-split at its scope
Remainder ==
  IF Len(Lookups) = 2
    THEN NameAfterScope(MODULE_PARSER(req.uri).moduleName) \o <<Slash>>
           \o MODULE_PARSER(req.uri).relativePath
    ELSE MODULE_PARSER(req.uri).relativePath

ModuleLocations ==
  << ModuleInEffect.sassDir, PathJoin(ModuleInEffect.sassDir, NameInEffect) >>

UnderDirectory(file, dir) == IsPrefixSegs(ResolvedSegs(dir), ResolvedSegs(file))

UnderAnIncludePath(file, base) ==
  \E k \in 1..Len(IncludePaths) : UnderDirectory(file, PathResolve(base, IncludePaths[k]))

\* the candidates of the first location, then those of the second that are new
InPriorityOrder(name, locations) ==
  AddAll(ExpandAt(locations[1], name), ExpandAt(locations[2], name))

\* C22: the module-relative attempt expands the relative-path remainder, not
\* the whole identifier, under two locations: the module's stylesheet
\* directory first, then that directory joined with the module name in
\* effect after the back-compat re-split; it probes no configured include
\* path.
C22_ModuleAttemptProbesTwoLocations ==
  \A i \in 1..Len(trace) :
    IsAttempt(i, "module") =>
      /\ trace[i].aux = ModuleLocations
      /\ IsPrefixSegs(ReadsFrom(trace, i + 1), InPriorityOrder(Remainder, ModuleLocations))
      /\ \A k \in 1..Len(ReadsFrom(trace, i + 1)) :
           ~UnderAnIncludePath(ReadsFrom(trace, i + 1)[k], ModuleLocations[1])

\* a module attempt that missed every candidate of the stylesheet directory
\* and read the file under the directory joined with the module name
C22_Witness ==
  /\ pc = "done"
  /\ \E i \in 1..Len(trace) :
       /\ IsAttempt(i, "module")
       /\ Len(ReadsFrom(trace, i + 1)) > 1
       /\ trace[i + Len(ReadsFrom(trace, i + 1)) + 1].ev = "importOnce"
       /\ trace[i + Len(ReadsFrom(trace, i + 1)) + 1].arg
            = PathJoin(ModuleLocations[2], Remainder \o SassExtension)

(***************************************************************************)
(* C21: every request completes once                                       *)
(***************************************************************************)
\* a request is in flight and its uri parsed
RequestParsed == req # NoReq /\ MODULE_PARSER(req.uri).matched

CompletedOnce == pc = "done" /\ Len(completions) = 1

\* C21: with a fallback resolver that answers every invocation once, and
\* importOnce completing once, every request whose uri parses completes its
\* completion callback exactly once: when the importer returns the request
\* is completed or waits for the fallback resolver, it is never completed a
\* second time, and it does not wait forever.
C21_CompletesExactlyOnce ==
  /\ [](RequestParsed =>
          \/ CompletedOnce
          \/ pc = "fallback" /\ completions = <<>>)
  /\ (RequestParsed /\ pc = "fallback") ~> CompletedOnce

\* both attempts missed and the fallback resolver reported nothing each time
C21_Witness ==
  /\ RequestParsed
  /\ CompletedOnce
  /\ ModuleBranch
  /\ RelativeAttempted
  /\ Cardinality({i \in 1..Len(trace) : trace[i].ev = "fallback"}) = 2
  /\ completions[1].kind = "error"

====
